---- MODULE Spec2Model ----
(***************************************************************************)
(* Slide-state reconciliation of que-pilot: PresentationTracker            *)
(* (src/src/core/presentation/tracker.py), PresentationService             *)
(* (src/src/services/presentation_service.py) and the SyncService polling  *)
(* loop (src/src/services/sync_service.py).                                *)
(***************************************************************************)
EXTENDS Integers, Sequences, FiniteSets, TLC

\* ------------------------------------------------------------------ bounds
\* largest slide count a readable file has
MaxSlides == 3
\* largest slide number / slide total a detection signal carries
MaxSignal == 4
\* number of signals the end-to-end scenario feeds
MaxFeed == 5
\* largest slide number a signal of the end-to-end scenario carries
MaxFedSlide == 5
\* polling-loop threads one SyncService creates
MaxThreads == 2
\* callbacks registered per SyncService callback list
MaxCallbacks == 1
\* events kept in the model's history before the loop is paused
MaxEvents == 2
\* words in a window title typed word by word
MaxTitle == 4
\* largest number written in a window title
MaxTitleNum == 2
\* largest slide number native introspection or OCR reports
MaxDetected == 2
\* emit_event calls in a row
MaxEmitted == 103
\* SyncService.max_events
max_events == 100

\* Python's None for an Optional[int] field
None == -1

\* Python truthiness of an Optional[int]: None and 0 are falsy
Truthy(x) == x # None /\ x # 0

\* ------------------------------------------------------------- signals
\* What PowerPointWindowDetector.get_current_slide_info() hands to the
\* tracker: None (info = FALSE) or a dict whose current_slide/total_slides
\* are None or a non-negative integer (the title patterns are \d+).
OptSlide == {None} \cup (0..MaxSignal)

NoSignal == [info |-> FALSE, current_slide |-> None, total_slides |-> None]

Signals ==
    {NoSignal} \cup
    [info : {TRUE}, current_slide : OptSlide, total_slides : OptSlide]

\* a dict that carries only current_slide
Sig(c) == [info |-> TRUE, current_slide |-> c, total_slides |-> None]

\* ------------------------------------------------------------------ files
\* A presentation path as load_presentation sees it: does it exist, its
\* extension, can python-pptx open it, how many slides it then has, and
\* what _detect_ppt_slide_count() answers for it.
File(e, x, r, s, c) ==
    [exists |-> e, ext |-> x, readable |-> r, slides |-> s, count |-> c]

Files ==
    {File(FALSE, "pptx", FALSE, 0, 0), File(TRUE, "other", FALSE, 0, 0)}
    \cup {File(TRUE, x, TRUE, s, 0) : x \in {"pptx", "ppt"}, s \in 0..MaxSlides}
    \cup {File(TRUE, "pptx", FALSE, 0, 0)}
    \cup {File(TRUE, "ppt", FALSE, 0, c) : c \in 0..MaxSlides}

\* load_presentation asks the window detector only for a .ppt file that
\* python-pptx cannot open
WindowConsulted(f) == f.exists /\ f.ext = "ppt" /\ ~f.readable

\* --------------------------------------------------------------- variables
VARIABLES
    \* PresentationTracker
    current_slide_index, total_slides, window_based_tracking,
    window_detector, auto_sync_enabled,
    \* the last tracker call: its name, arguments and return value
    call,
    \* PresentationService: tracker / detector are set (not None)
    tracker, detector, current_presentation_id, is_presenting,
    \* SyncService
    presentation_service, is_running, sync_thread, last_slide_number,
    last_presentation_id, sync_events, event_callbacks, slide_sync_callbacks,
    \* polling threads: position in _sync_loop and the local `changed`
    pc, changed,
    \* the locals of a sync_with_powerpoint call in progress, per caller:
    \* its previous_slide and the slide_info the detector returned
    sync_previous_slide, slide_info,
    \* the caller of start_sync / stop_sync: inside join or not, and whether
    \* its last completed call was stop_sync
    ui, stopped,
    \* current_slide values polled since the scenario's load
    fed,
    \* PowerPointWindowDetector: the window get_active_powerpoint_window()
    \* finds, what its three helpers answer when asked, and the last
    \* detector call with its result
    active_window, helpers, detection,
    \* the last PresentationService call with its arguments, its return
    \* value and the service state it started from
    service_call,
    \* every event handed to emit_event since construction or the last
    \* clear_events, oldest first
    emitted

trackerVars == <<current_slide_index, total_slides, window_based_tracking,
                 window_detector, auto_sync_enabled>>

serviceVars == <<tracker, detector, current_presentation_id, is_presenting>>

syncVars == <<presentation_service, is_running, sync_thread,
              last_slide_number, last_presentation_id, sync_events,
              event_callbacks, slide_sync_callbacks>>

localVars == <<sync_previous_slide, slide_info>>

threadVars == <<pc, changed, ui, stopped, localVars>>

detectVars == <<active_window, helpers, detection>>

logVars == <<service_call, emitted>>

vars == <<trackerVars, call, serviceVars, syncVars, threadVars, fed,
          detectVars, logVars>>

Threads == 1..MaxThreads

\* the callers of sync_with_powerpoint: the polling threads and, as 0, the
\* UI thread
UI == 0

Callers == {UI} \cup Threads

Call(op, n, sig, ret) ==
    [op |-> op, n |-> n, sig |-> sig, ret |-> ret,
     again |-> (call.op = op /\ call.sig = sig /\ call.n = n)]

\* -------------------------------------------- PowerPointWindowDetector
\* platform.system()
Systems == {"Darwin", "Windows", "Linux"}

\* A window title is a sequence of words, written with single spaces between
\* them except around "/" ("3/7").  "slide" is the word in lower case.
Word(k) == [kind |-> k, n |-> 0]

Num(n) == [kind |-> "num", n |-> n]

TitleWords ==
    {Word("Slide"), Word("slide"), Word("of"), Word("/")}
    \cup {Num(n) : n \in 1..MaxTitleNum}

NoWindow == [found |-> FALSE, title |-> <<>>]

Window(title) == [found |-> TRUE, title |-> title]

\* titles of the windows the full detection is run on
WindowTitles ==
    { <<>>,
      <<Word("Slide"), Num(2), Word("of"), Num(3)>>,
      <<Word("Slide"), Num(3), Word("of"), Num(1)>>,
      <<Word("Slide"), Num(0), Word("of"), Num(2)>>,
      <<Word("Slide"), Word("Show"), Word("of"), Num(3)>>,
      <<Word("slide"), Num(2)>> }

IsNum(title, i) == i \in 1..Len(title) /\ title[i].kind = "num"

IsKind(title, i, kinds) == i \in 1..Len(title) /\ title[i].kind \in kinds

\* slide_patterns, in the order of the list
slide_patterns == <<"Slide (\\d+) of (\\d+)", "(\\d+)/(\\d+)",
                    "(\\d+) of (\\d+)", "Slide (\\d+)">>

\* pattern k of slide_patterns matches the title at word i (re.IGNORECASE)
MatchAt(k, title, i) ==
    CASE k = 1 -> /\ IsKind(title, i, {"Slide", "slide"})
                  /\ IsNum(title, i + 1)
                  /\ IsKind(title, i + 2, {"of"})
                  /\ IsNum(title, i + 3)
      [] k = 2 -> /\ IsNum(title, i)
                  /\ IsKind(title, i + 1, {"/"})
                  /\ IsNum(title, i + 2)
      [] k = 3 -> /\ IsNum(title, i)
                  /\ IsKind(title, i + 1, {"of"})
                  /\ IsNum(title, i + 2)
      [] k = 4 -> /\ IsKind(title, i, {"Slide", "slide"})
                  /\ IsNum(title, i + 1)

\* match.groups() of pattern k matched at word i, as current_slide and
\* total_slides
Groups(k, title, i) ==
    CASE k = 1 -> [current_slide |-> title[i + 1].n,
                   total_slides |-> title[i + 3].n]
      [] k = 2 -> [current_slide |-> title[i].n,
                   total_slides |-> title[i + 2].n]
      [] k = 3 -> [current_slide |-> title[i].n,
                   total_slides |-> title[i + 2].n]
      [] k = 4 -> [current_slide |-> title[i + 1].n,
                   total_slides |-> None]

Matches(k, title) == {i \in 1..Len(title) : MatchAt(k, title, i)}

Least(S) == CHOOSE x \in S : \A y \in S : x <= y

\* re.search(pattern k, title): the groups of the leftmost match, or no match
search(k, title) ==
    IF Matches(k, title) = {}
    THEN [match |-> FALSE, current_slide |-> None, total_slides |-> None]
    ELSE LET g == Groups(k, title, Least(Matches(k, title)))
         IN  [match |-> TRUE, current_slide |-> g.current_slide,
              total_slides |-> g.total_slides]

\* the pattern loop taking the match that starts leftmost in the title,
\* whichever pattern it belongs to
parse_title_leftmost(title) ==
    LET starts == {i \in 1..Len(title) :
                      \E k \in 1..Len(slide_patterns) : MatchAt(k, title, i)}
    IN  IF starts = {}
        THEN [current_slide |-> None, total_slides |-> None]
        ELSE LET i == Least(starts)
                 k == Least({j \in 1..Len(slide_patterns) :
                                MatchAt(j, title, i)})
             IN  Groups(k, title, i)

\* the loop over slide_patterns: the first pattern of the list that matches
\* sets current_slide and total_slides, then break
parse_title(title) ==
    LET hits == {k \in 1..Len(slide_patterns) : search(k, title).match}
    IN  IF hits = {}
        THEN [current_slide |-> None, total_slides |-> None]
        ELSE LET m == search(Least(hits), title)
             IN  [current_slide |-> m.current_slide,
                  total_slides |-> m.total_slides]

\* 'Slide Show' in title
SlideShow(title) ==
    \E i \in 1..Len(title) :
        title[i].kind = "Slide" /\ IsKind(title, i + 1, {"Show"})

\* the mode read off the title (the titles here carry neither 'Normal' nor
\* 'Edit')
title_mode(title) == IF SlideShow(title) THEN "slideshow" ELSE "normal"

\* any(pattern in title for pattern in ['Slide', '/', 'of'])
HasSlideWords(title) ==
    \E i \in 1..Len(title) : title[i].kind \in {"Slide", "/", "of"}

\* extract_slide_info_from_title asks AppleScript before parsing
AppleScriptAsked(sys, title) ==
    sys = "Darwin" /\ (title = <<>> \/ ~HasSlideWords(title))

\* What get_powerpoint_slide_info_macos() returns: {'mode': ...} alone, or
\* the dict with current_slide, total_slides, mode and slide_text (here:
\* whether slide_text is non-empty).  It catches every exception itself.
Apple(m, c, t, x) ==
    [mode |-> m, current_slide |-> c, total_slides |-> t, slide_text |-> x]

AppleAnswers ==
    {Apple("no_presentation", None, None, FALSE),
     Apple("limited", None, MaxDetected, FALSE)}
    \cup {Apple("normal", c, MaxDetected, x) :
             c \in 1..MaxDetected, x \in BOOLEAN}

\* What ppt_detector.detect_current_slide_simple() does: there is no
\* ppt_detector, it raises, it returns None, or it returns a dict
Ppt(s, c, t, p) ==
    [state |-> s, current_slide |-> c, total_slides |-> t, is_ppt |-> p]

PptAnswers ==
    {Ppt("absent", None, None, FALSE), Ppt("raises", None, None, FALSE),
     Ppt("none", None, None, FALSE)}
    \cup {Ppt("info", c, MaxDetected, p) :
             c \in {None} \cup (1..MaxDetected), p \in BOOLEAN}

\* What screen_detector.get_current_slide_info() does: there is no
\* screen_detector, it raises, it returns None, or it returns a SlideInfo
Ocr(s, n) == [state |-> s, slide_number |-> n]

OcrAnswers ==
    {Ocr("absent", None), Ocr("raises", None), Ocr("none", None)}
    \cup {Ocr("info", n) : n \in {None} \cup (1..(MaxDetected + 1))}

\* the value a detector call hands back
Info(c, t, m, x, d) ==
    [raised |-> FALSE, info |-> TRUE, current_slide |-> c,
     total_slides |-> t, mode |-> m, slide_text |-> x,
     detection_method |-> d]

\* return None
NoInfo ==
    [raised |-> FALSE, info |-> FALSE, current_slide |-> None,
     total_slides |-> None, mode |-> "none", slide_text |-> FALSE,
     detection_method |-> "none"]

\* extract_slide_info_from_title(title) on platform sys, apple being the
\* answer of AppleScript should it be asked
extract_slide_info_from_title(sys, title, apple) ==
    IF AppleScriptAsked(sys, title) /\ Truthy(apple.current_slide)
    THEN Info(apple.current_slide, apple.total_slides, apple.mode,
              apple.slide_text, "none")
    ELSE LET p == parse_title(title)
         IN  Info(p.current_slide, p.total_slides, title_mode(title),
                  FALSE, "none")

\* get_powerpoint_windows() enumerates on macOS and Windows only
get_active_powerpoint_window(sys, win) ==
    IF sys \in {"Darwin", "Windows"} THEN win ELSE NoWindow

\* the OCR fallback of get_current_slide_info is entered
OcrAsked(s, ocr) ==
    (~Truthy(s.current_slide) \/ ~s.slide_text) /\ ocr.state # "absent"

\* get_current_slide_info() on platform sys: ppt, apple and ocr are the
\* answers of the three helpers should they be asked, win the window found
get_current_slide_info(sys, ppt, win, apple, ocr) ==
    IF /\ sys = "Darwin"
       /\ ppt.state = "info"
       /\ Truthy(ppt.current_slide)
       /\ ppt.is_ppt
    THEN Info(ppt.current_slide, ppt.total_slides, "ppt_specialized",
              FALSE, "ppt_specialized")
    ELSE LET window == get_active_powerpoint_window(sys, win)
         IN  IF ~window.found
             THEN IF sys = "Darwin"
                  THEN extract_slide_info_from_title(sys, <<>>, apple)
                  ELSE NoInfo
             ELSE LET s == extract_slide_info_from_title(sys, window.title,
                                                         apple)
                  IN  IF /\ OcrAsked(s, ocr)
                         /\ ocr.state = "info"
                         /\ Truthy(ocr.slide_number)
                      THEN [s EXCEPT !.current_slide = ocr.slide_number,
                                     !.detection_method = "screen_ocr"]
                      ELSE s

Detection(op, sys, r) == [op |-> op, system |-> sys, result |-> r]

NoDetection == Detection("__init__", "Linux", NoInfo)

Helpers(ppt, apple, ocr) == [ppt |-> ppt, applescript |-> apple, ocr |-> ocr]

\* PowerPointWindowDetector.__init__: no call made yet; neither the PPT
\* detector nor the screen detector could be imported, PowerPoint is not
\* running
DetectorInit ==
    /\ active_window = NoWindow
    /\ helpers = Helpers(Ppt("absent", None, None, FALSE),
                         Apple("no_presentation", None, None, FALSE),
                         Ocr("absent", None))
    /\ detection = NoDetection

\* ------------------------------------------------- PresentationTracker
\* go_to_slide with the lower bound off by one (0 <= slide_number)
go_to_slide_from_zero(idx, total, n) ==
    IF 0 <= n /\ n <= total
    THEN [ret |-> TRUE, current_slide_index |-> n - 1]
    ELSE [ret |-> FALSE, current_slide_index |-> idx]

\* go_to_slide(slide_number)
go_to_slide(idx, total, n) ==
    IF 1 <= n /\ n <= total
    THEN [ret |-> TRUE, current_slide_index |-> n - 1]
    ELSE [ret |-> FALSE, current_slide_index |-> idx]

\* next_slide with the upper bound off by one (index < total_slides)
next_slide_past_end(idx, total) ==
    IF idx < total
    THEN [ret |-> TRUE, current_slide_index |-> idx + 1]
    ELSE [ret |-> FALSE, current_slide_index |-> idx]

\* next_slide()
next_slide(idx, total) ==
    IF idx < total - 1
    THEN [ret |-> TRUE, current_slide_index |-> idx + 1]
    ELSE [ret |-> FALSE, current_slide_index |-> idx]

\* previous_slide()
previous_slide(idx) ==
    IF idx > 0
    THEN [ret |-> TRUE, current_slide_index |-> idx - 1]
    ELSE [ret |-> FALSE, current_slide_index |-> idx]

\* sync_with_powerpoint_window without the upper range check
sync_no_upper_bound(idx, total, wb, det, sig) ==
    IF ~det \/ ~sig.info \/ ~Truthy(sig.current_slide)
    THEN [ret |-> FALSE, current_slide_index |-> idx, total_slides |-> total]
    ELSE LET t == IF wb /\ Truthy(sig.total_slides)
                  THEN sig.total_slides ELSE total
         IN  IF 1 <= sig.current_slide /\ sig.current_slide - 1 # idx
             THEN [ret |-> TRUE, current_slide_index |-> sig.current_slide - 1,
                   total_slides |-> t]
             ELSE [ret |-> FALSE, current_slide_index |-> idx,
                   total_slides |-> t]

\* sync_with_powerpoint_window reporting a change of total_slides as a change
sync_reports_total_change(idx, total, wb, det, sig) ==
    IF ~det \/ ~sig.info \/ ~Truthy(sig.current_slide)
    THEN [ret |-> FALSE, current_slide_index |-> idx, total_slides |-> total]
    ELSE LET t == IF wb /\ Truthy(sig.total_slides)
                  THEN sig.total_slides ELSE total
         IN  IF 1 <= sig.current_slide /\ sig.current_slide <= t
                /\ sig.current_slide - 1 # idx
             THEN [ret |-> TRUE, current_slide_index |-> sig.current_slide - 1,
                   total_slides |-> t]
             ELSE [ret |-> (t # total), current_slide_index |-> idx,
                   total_slides |-> t]

\* sync_with_powerpoint_window comparing the 1-based slide with the 0-based
\* index (detected_slide != current_slide_index)
sync_compares_one_based(idx, total, wb, det, sig) ==
    IF ~det \/ ~sig.info \/ ~Truthy(sig.current_slide)
    THEN [ret |-> FALSE, current_slide_index |-> idx, total_slides |-> total]
    ELSE LET t == IF wb /\ Truthy(sig.total_slides)
                  THEN sig.total_slides ELSE total
         IN  IF 1 <= sig.current_slide /\ sig.current_slide <= t
                /\ sig.current_slide # idx
             THEN [ret |-> TRUE, current_slide_index |-> sig.current_slide - 1,
                   total_slides |-> t]
             ELSE [ret |-> FALSE, current_slide_index |-> idx,
                   total_slides |-> t]

\* sync_with_powerpoint_window() with sig the detector's answer
sync_with_powerpoint_window(idx, total, wb, det, sig) ==
    IF ~det
    THEN [ret |-> FALSE, current_slide_index |-> idx, total_slides |-> total]
    ELSE IF ~sig.info \/ ~Truthy(sig.current_slide)
    THEN [ret |-> FALSE, current_slide_index |-> idx, total_slides |-> total]
    ELSE LET detected_slide == sig.current_slide
             t == IF wb /\ Truthy(sig.total_slides)
                  THEN sig.total_slides ELSE total
         IN  IF 1 <= detected_slide /\ detected_slide <= t
                /\ detected_slide - 1 # idx
             THEN [ret |-> TRUE, current_slide_index |-> detected_slide - 1,
                   total_slides |-> t]
             ELSE [ret |-> FALSE, current_slide_index |-> idx,
                   total_slides |-> t]

\* get_total_slides() with sig the detector's answer
get_total_slides(total, wb, det, sig) ==
    IF wb /\ det /\ sig.info /\ Truthy(sig.total_slides)
    THEN sig.total_slides
    ELSE total

\* load_presentation taking whatever _detect_ppt_slide_count() answers
load_presentation_trusts_count(idx, total, wb, det, f, sig) ==
    IF ~f.exists \/ f.ext = "other"
    THEN [raised |-> TRUE, current_slide_index |-> idx,
          total_slides |-> total, window_based_tracking |-> wb]
    ELSE IF f.ext = "ppt"
    THEN IF f.readable
         THEN [raised |-> FALSE, current_slide_index |-> idx,
               total_slides |-> f.slides, window_based_tracking |-> FALSE]
         ELSE IF det /\ sig.info /\ Truthy(sig.total_slides)
         THEN [raised |-> FALSE,
               current_slide_index |->
                   IF Truthy(sig.current_slide)
                   THEN sig.current_slide - 1 ELSE idx,
               total_slides |-> sig.total_slides,
               window_based_tracking |-> TRUE]
         ELSE [raised |-> FALSE, current_slide_index |-> idx,
               total_slides |-> f.count,
               window_based_tracking |-> TRUE]
    ELSE IF f.readable
         THEN [raised |-> FALSE, current_slide_index |-> idx,
               total_slides |-> f.slides, window_based_tracking |-> wb]
         ELSE [raised |-> TRUE, current_slide_index |-> idx,
               total_slides |-> total, window_based_tracking |-> wb]

\* load_presentation() on a tracker whose ppt_path names file f; sig is the
\* detector's answer should the window be consulted
load_presentation(idx, total, wb, det, f, sig) ==
    IF ~f.exists \/ f.ext = "other"
    THEN [raised |-> TRUE, current_slide_index |-> idx,
          total_slides |-> total, window_based_tracking |-> wb]
    ELSE IF f.ext = "ppt"
    THEN IF f.readable
         THEN [raised |-> FALSE, current_slide_index |-> idx,
               total_slides |-> f.slides, window_based_tracking |-> FALSE]
         ELSE IF det /\ sig.info /\ Truthy(sig.total_slides)
         THEN [raised |-> FALSE,
               current_slide_index |->
                   IF Truthy(sig.current_slide)
                   THEN sig.current_slide - 1 ELSE idx,
               total_slides |-> sig.total_slides,
               window_based_tracking |-> TRUE]
         ELSE [raised |-> FALSE, current_slide_index |-> idx,
               total_slides |-> IF f.count > 1 THEN f.count ELSE 1,
               window_based_tracking |-> TRUE]
    ELSE IF f.readable
         THEN [raised |-> FALSE, current_slide_index |-> idx,
               total_slides |-> f.slides, window_based_tracking |-> wb]
         ELSE [raised |-> TRUE, current_slide_index |-> idx,
               total_slides |-> total, window_based_tracking |-> wb]

\* enable_auto_sync switching on without looking at the detector
enable_auto_sync_without_detector(det, enabled) ==
    [ret |-> TRUE, auto_sync_enabled |-> TRUE]

\* enable_auto_sync(): refused without a window detector, and the refusal
\* leaves auto_sync_enabled as it is
enable_auto_sync(det, enabled) ==
    IF ~det
    THEN [ret |-> FALSE, auto_sync_enabled |-> enabled]
    ELSE [ret |-> TRUE, auto_sync_enabled |-> TRUE]

\* ------------------------------------------------------- tracker actions
\* PresentationTracker(None, auto_detect)
TrackerInit ==
    /\ current_slide_index = 0
    /\ total_slides = 0
    /\ window_based_tracking = FALSE
    /\ window_detector \in BOOLEAN
    /\ auto_sync_enabled = FALSE

CallInit == call = [op |-> "__init__", n |-> 0, sig |-> NoSignal,
                    ret |-> FALSE, again |-> FALSE]

NewTracker(auto_detect) ==
    /\ current_slide_index' = 0
    /\ total_slides' = 0
    /\ window_based_tracking' = FALSE
    /\ window_detector' = auto_detect
    /\ auto_sync_enabled' = FALSE
    /\ call' = Call("__init__", 0, NoSignal, FALSE)

LoadPresentation(f, sig) ==
    LET r == load_presentation(current_slide_index, total_slides,
                               window_based_tracking, window_detector, f, sig)
    IN  /\ current_slide_index' = r.current_slide_index
        /\ total_slides' = r.total_slides
        /\ window_based_tracking' = r.window_based_tracking
        /\ call' = Call("load_presentation", 0, NoSignal, ~r.raised)
        /\ UNCHANGED <<window_detector, auto_sync_enabled>>

GetTotalSlides(sig) ==
    /\ total_slides' = get_total_slides(total_slides, window_based_tracking,
                                        window_detector, sig)
    /\ call' = Call("get_total_slides", 0, NoSignal, TRUE)
    /\ UNCHANGED <<current_slide_index, window_based_tracking,
                   window_detector, auto_sync_enabled>>

NextSlide ==
    LET r == next_slide(current_slide_index, total_slides)
    IN  /\ current_slide_index' = r.current_slide_index
        /\ call' = Call("next_slide", 0, NoSignal, r.ret)
        /\ UNCHANGED <<total_slides, window_based_tracking, window_detector,
                       auto_sync_enabled>>

PreviousSlide ==
    LET r == previous_slide(current_slide_index)
    IN  /\ current_slide_index' = r.current_slide_index
        /\ call' = Call("previous_slide", 0, NoSignal, r.ret)
        /\ UNCHANGED <<total_slides, window_based_tracking, window_detector,
                       auto_sync_enabled>>

GoToSlide(n) ==
    LET r == go_to_slide(current_slide_index, total_slides, n)
    IN  /\ current_slide_index' = r.current_slide_index
        /\ call' = Call("go_to_slide", n, NoSignal, r.ret)
        /\ UNCHANGED <<total_slides, window_based_tracking, window_detector,
                       auto_sync_enabled>>

SyncWithPowerpointWindow(sig) ==
    LET r == sync_with_powerpoint_window(current_slide_index, total_slides,
                 window_based_tracking, window_detector, sig)
    IN  /\ current_slide_index' = r.current_slide_index
        /\ total_slides' = r.total_slides
        /\ call' = Call("sync_with_powerpoint_window", 0, sig, r.ret)
        /\ UNCHANGED <<window_based_tracking, window_detector,
                       auto_sync_enabled>>

\* enable_auto_sync()
EnableAutoSync ==
    LET r == enable_auto_sync(window_detector, auto_sync_enabled)
    IN  /\ auto_sync_enabled' = r.auto_sync_enabled
        /\ call' = Call("enable_auto_sync", 0, NoSignal, r.ret)
        /\ UNCHANGED <<current_slide_index, total_slides,
                       window_based_tracking, window_detector>>

\* disable_auto_sync()
DisableAutoSync ==
    /\ auto_sync_enabled' = FALSE
    /\ call' = Call("disable_auto_sync", 0, NoSignal, FALSE)
    /\ UNCHANGED <<current_slide_index, total_slides,
                   window_based_tracking, window_detector>>

TrackerNext ==
    \/ \E a \in BOOLEAN : NewTracker(a)
    \/ \E f \in Files :
          \E sig \in (IF WindowConsulted(f) THEN Signals ELSE {NoSignal}) :
              LoadPresentation(f, sig)
    \/ \E sig \in Signals : GetTotalSlides(sig)
    \/ NextSlide
    \/ PreviousSlide
    \/ \E n \in (-1)..(MaxSignal + 1) : GoToSlide(n)
    \/ \E sig \in Signals : SyncWithPowerpointWindow(sig)
    \/ EnableAutoSync
    \/ DisableAutoSync

\* PresentationService.__init__
ServiceInit ==
    /\ tracker = FALSE
    /\ detector = FALSE
    /\ current_presentation_id = None
    /\ is_presenting = FALSE

\* SyncService.__init__ followed by set_presentation_service, as the main
\* window wires the two services
SyncInit ==
    /\ presentation_service = TRUE
    /\ is_running = FALSE
    /\ sync_thread = None
    /\ last_slide_number = 0
    /\ last_presentation_id = None
    /\ sync_events = <<>>
    /\ event_callbacks = 0
    /\ slide_sync_callbacks = 0

ThreadInit ==
    /\ pc = [t \in Threads |-> "new"]
    /\ changed = [t \in Threads |-> FALSE]
    /\ sync_previous_slide = [c \in Callers |-> 0]
    /\ slide_info = [c \in Callers |-> NoSignal]
    /\ ui = "ready"
    /\ stopped = FALSE

\* a PresentationService state as a call finds or leaves it
ServiceState(trk, dtr, id, presenting, idx, total, wb, det, sync) ==
    [tracker |-> trk, detector |-> dtr, current_presentation_id |-> id,
     is_presenting |-> presenting, current_slide_index |-> idx,
     total_slides |-> total, window_based_tracking |-> wb,
     window_detector |-> det, auto_sync_enabled |-> sync]

\* a path that names no file
NoFile == File(FALSE, "other", FALSE, 0, 0)

ServiceCall(op, f, auto_detect, sig, ret, before) ==
    [op |-> op, file |-> f, auto_detect |-> auto_detect, sig |-> sig,
     ret |-> ret, before |-> before]

\* no service call made, no event emitted
LogInit ==
    /\ service_call =
          ServiceCall("__init__", NoFile, FALSE, NoSignal, FALSE,
                      ServiceState(FALSE, FALSE, None, FALSE, 0, 0, FALSE,
                                   FALSE, FALSE))
    /\ emitted = <<>>

\* a PresentationTracker used on its own
Init ==
    /\ TrackerInit /\ CallInit /\ ServiceInit /\ SyncInit /\ ThreadInit
    /\ fed = <<>>
    /\ DetectorInit
    /\ LogInit

Next ==
    /\ TrackerNext
    /\ UNCHANGED <<serviceVars, syncVars, threadVars, fed, detectVars, logVars>>

Spec == Init /\ [][Next]_vars

\* ------------------------------------------------- PresentationService
\* PresentationService.sync_with_powerpoint(): False without tracker or
\* detector; otherwise True when the tracker's sync returned True and the
\* slide then differs from previous_slide, read before the detector was asked
sync_with_powerpoint(trk, dtr, previous, idx, total, wb, det, sig) ==
    IF ~trk \/ ~dtr
    THEN [ret |-> FALSE, current_slide_index |-> idx, total_slides |-> total]
    ELSE LET r == sync_with_powerpoint_window(idx, total, wb, det, sig)
         IN  [ret |-> r.ret /\ r.current_slide_index + 1 # previous,
              current_slide_index |-> r.current_slide_index,
              total_slides |-> r.total_slides]

\* PresentationService.load_presentation(file_path, auto_detect): a new
\* tracker is built for file f; when its constructor raises, the service
\* keeps what it had
ServiceLoad(f, id, auto_detect, sig) ==
    LET r == load_presentation(0, 0, FALSE, auto_detect, f, sig)
    IN  IF r.raised
        THEN UNCHANGED <<trackerVars, serviceVars>>
        ELSE /\ current_slide_index' = r.current_slide_index
             /\ total_slides' = r.total_slides
             /\ window_based_tracking' = r.window_based_tracking
             /\ window_detector' = auto_detect
             /\ auto_sync_enabled' = FALSE
             /\ tracker' = TRUE
             /\ detector' = auto_detect
             /\ current_presentation_id' = id
             /\ UNCHANGED is_presenting

\* ------------------------------------------------------------ SyncService
SlideChanged(n) == [event_type |-> "slide_changed", slide_number |-> n]

PresentationLoaded == [event_type |-> "presentation_loaded", slide_number |-> 0]

\* emit_event dropping the newest event once the history is full
emit_event_drops_newest(events, e) ==
    LET a == Append(events, e)
    IN  IF Len(a) > max_events THEN SubSeq(a, 1, max_events) ELSE a

\* the history part of emit_event: append, then drop the oldest beyond
\* max_events
emit_event(events, e) ==
    LET a == Append(events, e)
    IN  IF Len(a) > max_events THEN Tail(a) ELSE a

\* the events handed to emit_event so far, after a handler whose outcome is
\* r and whose event would be e
handed(log, r, e) == IF r.emit THEN Append(log, e) ELSE log

\* on_slide_change(slide_number, ...): acts only for a slide number other
\* than last_slide_number
on_slide_change(slide_number, last, events) ==
    IF slide_number # last
    THEN [emit |-> TRUE, last_slide_number |-> slide_number,
          sync_events |-> emit_event(events, SlideChanged(slide_number))]
    ELSE [emit |-> FALSE, last_slide_number |-> last, sync_events |-> events]

\* the second half of _check_slide_changes with `changed` ignored
report_ignores_changed(chg, trk, idx, last, events) ==
    IF trk /\ idx + 1 # last
    THEN on_slide_change(idx + 1, last, events)
    ELSE [emit |-> FALSE, last_slide_number |-> last, sync_events |-> events]

\* the second half of _check_slide_changes: read the summary and report the
\* slide when it differs from last_slide_number and sync said changed
report(chg, trk, idx, last, events) ==
    IF trk /\ idx + 1 # last /\ chg
    THEN on_slide_change(idx + 1, last, events)
    ELSE [emit |-> FALSE, last_slide_number |-> last, sync_events |-> events]

\* on_presentation_load(presentation_id, total_slides)
on_presentation_load(id, last, events) ==
    IF id # last
    THEN [emit |-> TRUE, last_presentation_id |-> id,
          sync_events |-> emit_event(events, PresentationLoaded)]
    ELSE [emit |-> FALSE, last_presentation_id |-> last,
          sync_events |-> events]

\* _check_presentation_changes(): last_presentation_id is overwritten
\* before on_presentation_load compares against it
check_presentation_changes(svc, trk, id, last, events) ==
    IF svc /\ trk /\ id # last
    THEN on_presentation_load(id, id, events)
    ELSE [emit |-> FALSE, last_presentation_id |-> last,
          sync_events |-> events]

\* ------------------------------------------------- end-to-end scenario
\* One polling loop, no other caller: a readable .pptx is loaded once with
\* auto_detect, then whole loop iterations run one after the other, each
\* with the detector reporting some current_slide.
FedSignals == {Sig(c) : c \in {None} \cup (0..MaxFedSlide)}

ScenarioLoad(n) ==
    /\ ~tracker
    /\ ServiceLoad(File(TRUE, "pptx", TRUE, n, 0), 1, TRUE, NoSignal)
    /\ UNCHANGED <<call, syncVars, threadVars, fed, detectVars, logVars>>

\* _check_presentation_changes(); _check_slide_changes() with nothing raising
Feed(sig) ==
    /\ tracker
    /\ Len(fed) < MaxFeed
    /\ LET p == check_presentation_changes(presentation_service, tracker,
                    current_presentation_id, last_presentation_id, sync_events)
           s == sync_with_powerpoint(tracker, detector,
                    current_slide_index + 1, current_slide_index,
                    total_slides, window_based_tracking, window_detector, sig)
           r == report(s.ret, tracker, s.current_slide_index,
                       last_slide_number, p.sync_events)
       IN  /\ current_slide_index' = s.current_slide_index
           /\ total_slides' = s.total_slides
           /\ last_presentation_id' = p.last_presentation_id
           /\ last_slide_number' = r.last_slide_number
           /\ sync_events' = r.sync_events
           /\ emitted' = handed(handed(emitted, p, PresentationLoaded), r,
                                SlideChanged(s.current_slide_index + 1))
    /\ fed' = Append(fed, sig.current_slide)
    /\ UNCHANGED <<window_based_tracking, window_detector, auto_sync_enabled,
                   call, serviceVars, presentation_service, is_running,
                   sync_thread, event_callbacks, slide_sync_callbacks,
                   threadVars, detectVars, service_call>>

ScenarioNext ==
    \/ \E n \in 1..MaxSlides : ScenarioLoad(n)
    \/ \E sig \in FedSignals : Feed(sig)

ScenarioSpec == Init /\ [][ScenarioNext]_vars

\* ------------------------------------------------- SyncService polling
\* The polling model loads a readable two-slide .pptx; the detector reports
\* nothing, slide 1, slide 2 or the out-of-range slide 3
PollFile == File(TRUE, "pptx", TRUE, 2, 0)

PollSignals == {NoSignal, Sig(1), Sig(2), Sig(3)}

\* an exception raised inside an iteration ends the thread
on_exception_ends_loop(at) == "done"

\* the except clause that takes an exception raised at a step: the one of
\* _check_presentation_changes, or the one of _check_slide_changes
on_exception(at) ==
    IF at = "check_presentation" THEN "except_presentation"
    ELSE "except_slide"

\* start_sync(interval)
StartSync ==
    /\ ui = "ready"
    /\ IF is_running
       THEN UNCHANGED <<is_running, sync_thread, pc, stopped>>
       ELSE \E t \in Threads :
              /\ pc[t] = "new"
              /\ \A u \in Threads : u < t => pc[u] # "new"
              /\ is_running' = TRUE
              /\ sync_thread' = t
              /\ pc' = [pc EXCEPT ![t] = "while"]
              /\ stopped' = FALSE
    /\ UNCHANGED <<trackerVars, call, serviceVars, fed, detectVars, logVars, presentation_service,
                   last_slide_number, last_presentation_id, sync_events,
                   event_callbacks, slide_sync_callbacks, changed, ui,
                   localVars>>

\* stop_sync() up to the join
StopSync ==
    /\ ui = "ready"
    /\ is_running' = FALSE
    /\ IF sync_thread # None
       THEN ui' = "joining" /\ UNCHANGED stopped
       ELSE stopped' = TRUE /\ UNCHANGED ui
    /\ UNCHANGED <<trackerVars, call, serviceVars, fed, detectVars, logVars, presentation_service,
                   sync_thread, last_slide_number, last_presentation_id,
                   sync_events, event_callbacks, slide_sync_callbacks,
                   pc, changed, localVars>>

\* sync_thread.join(timeout=2.0) returns because the thread has ended
JoinThreadEnded ==
    /\ ui = "joining"
    /\ pc[sync_thread] = "done"
    /\ ui' = "ready"
    /\ stopped' = TRUE
    /\ UNCHANGED <<trackerVars, call, serviceVars, syncVars, fed, detectVars, logVars,
                   pc, changed, localVars>>

\* sync_thread.join(timeout=2.0) returns because the two seconds are over
JoinTimedOut ==
    /\ ui = "joining"
    /\ pc[sync_thread] # "done"
    /\ ui' = "ready"
    /\ stopped' = TRUE
    /\ UNCHANGED <<trackerVars, call, serviceVars, syncVars, fed, detectVars, logVars,
                   pc, changed, localVars>>

\* add_event_callback(callback)
AddEventCallback ==
    /\ ui = "ready"
    /\ event_callbacks < MaxCallbacks
    /\ event_callbacks' = event_callbacks + 1
    /\ UNCHANGED <<trackerVars, call, serviceVars, threadVars, fed, detectVars, logVars,
                   presentation_service, is_running, sync_thread,
                   last_slide_number, last_presentation_id, sync_events,
                   slide_sync_callbacks>>

\* add_slide_sync_callback(callback)
AddSlideSyncCallback ==
    /\ ui = "ready"
    /\ slide_sync_callbacks < MaxCallbacks
    /\ slide_sync_callbacks' = slide_sync_callbacks + 1
    /\ UNCHANGED <<trackerVars, call, serviceVars, threadVars, fed, detectVars, logVars,
                   presentation_service, is_running, sync_thread,
                   last_slide_number, last_presentation_id, sync_events,
                   event_callbacks>>

\* PresentationService.load_presentation(file_path) from the main window,
\* at a moment when no polling thread is inside a sync of the tracker being
\* replaced
PollLoad ==
    /\ ui = "ready"
    /\ \A t \in Threads : pc[t] # "reconcile"
    /\ ServiceLoad(PollFile, 1, TRUE, NoSignal)
    /\ UNCHANGED <<call, syncVars, threadVars, fed, detectVars, logVars>>

\* PresentationService.next_slide / previous_slide / navigate_to_slide
Navigate(n) ==
    /\ ui = "ready"
    /\ tracker
    /\ current_slide_index' =
          go_to_slide(current_slide_index, total_slides, n).current_slide_index
    /\ UNCHANGED <<total_slides, window_based_tracking, window_detector,
                   auto_sync_enabled, call, serviceVars, syncVars,
                   threadVars, fed, detectVars, logVars>>

NavigateNext ==
    /\ ui = "ready"
    /\ tracker
    /\ current_slide_index' =
          next_slide(current_slide_index, total_slides).current_slide_index
    /\ UNCHANGED <<total_slides, window_based_tracking, window_detector,
                   auto_sync_enabled, call, serviceVars, syncVars,
                   threadVars, fed, detectVars, logVars>>

NavigatePrevious ==
    /\ ui = "ready"
    /\ tracker
    /\ current_slide_index' =
          previous_slide(current_slide_index).current_slide_index
    /\ UNCHANGED <<total_slides, window_based_tracking, window_detector,
                   auto_sync_enabled, call, serviceVars, syncVars,
                   threadVars, fed, detectVars, logVars>>

\* LiveView.refresh_presentation_data, a sync outside the polling loop, up
\* to the return of the detector
ManualSyncBegin(sig) ==
    /\ ui = "ready"
    /\ IF ~tracker \/ ~detector
       THEN UNCHANGED <<ui, localVars>>
       ELSE /\ ui' = "syncing"
            /\ sync_previous_slide' =
                  [sync_previous_slide EXCEPT ![UI] = current_slide_index + 1]
            /\ slide_info' = [slide_info EXCEPT ![UI] = sig]
    /\ UNCHANGED <<trackerVars, call, serviceVars, syncVars, fed, detectVars, logVars,
                   pc, changed, stopped>>

\* the rest of that sync: the tracker's check and writes
ManualSyncFinish ==
    /\ ui = "syncing"
    /\ LET s == sync_with_powerpoint(tracker, detector, sync_previous_slide[UI],
                    current_slide_index, total_slides, window_based_tracking,
                    window_detector, slide_info[UI])
       IN  /\ current_slide_index' = s.current_slide_index
           /\ total_slides' = s.total_slides
    /\ ui' = "ready"
    /\ sync_previous_slide' = [sync_previous_slide EXCEPT ![UI] = 0]
    /\ slide_info' = [slide_info EXCEPT ![UI] = NoSignal]
    /\ UNCHANGED <<window_based_tracking, window_detector, auto_sync_enabled,
                   call, serviceVars, syncVars, fed, detectVars, logVars,
                   pc, changed, stopped>>

\* ---- _sync_loop, one thread t
\* `while self.is_running` never leaving the loop
loop_never_ends(running) == "check_presentation"

\* `while self.is_running`: the next iteration, or the end of the thread
loop_test(running) == IF running THEN "check_presentation" ELSE "done"

\* time.sleep(self.sync_interval) at the end of an iteration (none before the
\* first), then the test of `while self.is_running`
While(t) ==
    /\ pc[t] = "while"
    /\ is_running => Len(sync_events) < MaxEvents
    /\ pc' = [pc EXCEPT ![t] = loop_test(is_running)]
    /\ changed' = [changed EXCEPT ![t] = FALSE]
    /\ UNCHANGED <<trackerVars, call, serviceVars, syncVars, fed, detectVars, logVars,
                   ui, stopped, localVars>>

\* _check_presentation_changes(); exc: get_presentation_summary raises
CheckPresentation(t, exc) ==
    /\ pc[t] = "check_presentation"
    /\ IF exc
       THEN /\ presentation_service
            /\ pc' = [pc EXCEPT ![t] = on_exception("check_presentation")]
            /\ UNCHANGED <<last_presentation_id, sync_events, emitted>>
       ELSE LET p == check_presentation_changes(presentation_service,
                         tracker, current_presentation_id,
                         last_presentation_id, sync_events)
            IN  /\ pc' = [pc EXCEPT ![t] = "check_slide"]
                /\ last_presentation_id' = p.last_presentation_id
                /\ sync_events' = p.sync_events
                /\ emitted' = handed(emitted, p, PresentationLoaded)
    /\ UNCHANGED <<trackerVars, call, serviceVars, fed, detectVars,
                   service_call, presentation_service,
                   is_running, sync_thread, last_slide_number,
                   event_callbacks, slide_sync_callbacks, changed,
                   ui, stopped, localVars>>

\* _check_slide_changes() up to the return of the detector inside
\* sync_with_powerpoint: previous_slide is read and the detector answers
\* sig; exc: the detector raises instead
CheckSlideDetect(t, sig, exc) ==
    /\ pc[t] = "check_slide"
    /\ IF ~presentation_service
       THEN /\ ~exc
            /\ pc' = [pc EXCEPT ![t] = "while"]
            /\ UNCHANGED <<changed, localVars>>
       ELSE IF ~tracker \/ ~detector
       THEN /\ ~exc
            /\ changed' = [changed EXCEPT ![t] = FALSE]
            /\ pc' = [pc EXCEPT ![t] = "report"]
            /\ UNCHANGED localVars
       ELSE IF exc
       THEN /\ pc' = [pc EXCEPT ![t] = on_exception("check_slide")]
            /\ UNCHANGED <<changed, localVars>>
       ELSE /\ sync_previous_slide' =
                  [sync_previous_slide EXCEPT ![t] = current_slide_index + 1]
            /\ slide_info' = [slide_info EXCEPT ![t] = sig]
            /\ pc' = [pc EXCEPT ![t] = "reconcile"]
            /\ UNCHANGED changed
    /\ UNCHANGED <<trackerVars, call, serviceVars, syncVars, fed, detectVars, logVars,
                   ui, stopped>>

\* the rest of sync_with_powerpoint: the tracker's check and writes, then
\* `changed`; exc: get_slide_info or a slide-change callback raises after
\* the tracker has moved
CheckSlideReconcile(t, exc) ==
    /\ pc[t] = "reconcile"
    /\ LET s == sync_with_powerpoint(tracker, detector, sync_previous_slide[t],
                    current_slide_index, total_slides, window_based_tracking,
                    window_detector, slide_info[t])
       IN  /\ current_slide_index' = s.current_slide_index
           /\ total_slides' = s.total_slides
           /\ IF exc
              THEN /\ s.ret
                   /\ pc' = [pc EXCEPT ![t] = on_exception("check_slide")]
                   /\ UNCHANGED changed
              ELSE /\ changed' = [changed EXCEPT ![t] = s.ret]
                   /\ pc' = [pc EXCEPT ![t] = "report"]
    /\ sync_previous_slide' = [sync_previous_slide EXCEPT ![t] = 0]
    /\ slide_info' = [slide_info EXCEPT ![t] = NoSignal]
    /\ UNCHANGED <<window_based_tracking, window_detector, auto_sync_enabled,
                   call, serviceVars, syncVars, fed, detectVars, logVars, ui, stopped>>

\* the rest of _check_slide_changes(): summary, comparison with
\* last_slide_number, on_slide_change.  exc: the summary or
\* get_current_slide_info raises, before anything is emitted; fail: one of
\* the callbacks raises, after the event was recorded.  Without either, every
\* callback of event_callbacks and slide_sync_callbacks has been invoked when
\* on_slide_change emitted.
CheckSlideReport(t, exc, fail) ==
    /\ pc[t] = "report"
    /\ LET r == report(changed[t], tracker, current_slide_index,
                       last_slide_number, sync_events)
       IN  IF exc
           THEN /\ ~fail
                /\ pc' = [pc EXCEPT ![t] = on_exception("report")]
                /\ UNCHANGED <<last_slide_number, sync_events, emitted>>
           ELSE /\ fail => (r.emit /\ event_callbacks + slide_sync_callbacks > 0)
                /\ pc' = [pc EXCEPT ![t] = IF fail THEN on_exception("report")
                                           ELSE "while"]
                /\ last_slide_number' = r.last_slide_number
                /\ sync_events' = r.sync_events
                /\ emitted' = handed(emitted, r,
                                     SlideChanged(current_slide_index + 1))
    /\ UNCHANGED <<trackerVars, call, serviceVars, fed, detectVars,
                   service_call, presentation_service,
                   is_running, sync_thread, last_presentation_id,
                   event_callbacks, slide_sync_callbacks, changed, ui, stopped,
                   localVars>>

\* except Exception in _check_presentation_changes: print, then
\* _check_slide_changes runs
ExceptPresentation(t) ==
    /\ pc[t] = "except_presentation"
    /\ pc' = [pc EXCEPT ![t] = "check_slide"]
    /\ UNCHANGED <<trackerVars, call, serviceVars, syncVars, fed, detectVars, logVars,
                   changed, ui, stopped, localVars>>

\* except Exception in _check_slide_changes: print, then the loop sleeps
ExceptSlide(t) ==
    /\ pc[t] = "except_slide"
    /\ pc' = [pc EXCEPT ![t] = "while"]
    /\ UNCHANGED <<trackerVars, call, serviceVars, syncVars, fed, detectVars, logVars,
                   changed, ui, stopped, localVars>>

ThreadStep(t) ==
    \/ While(t)
    \/ \E exc \in BOOLEAN : CheckPresentation(t, exc)
    \/ \E sig \in PollSignals, exc \in BOOLEAN : CheckSlideDetect(t, sig, exc)
    \/ \E exc \in BOOLEAN : CheckSlideReconcile(t, exc)
    \/ \E exc \in BOOLEAN, fail \in BOOLEAN : CheckSlideReport(t, exc, fail)
    \/ ExceptPresentation(t)
    \/ ExceptSlide(t)

SyncNext ==
    \/ StartSync
    \/ StopSync
    \/ JoinThreadEnded
    \/ JoinTimedOut
    \/ AddEventCallback
    \/ AddSlideSyncCallback
    \/ PollLoad
    \/ \E n \in 1..2 : Navigate(n)
    \/ NavigateNext
    \/ NavigatePrevious
    \/ \E sig \in PollSignals : ManualSyncBegin(sig)
    \/ ManualSyncFinish
    \/ \E t \in Threads : ThreadStep(t)

SyncSpec == Init /\ [][SyncNext]_vars

\* the scheduler runs every live thread: a polling thread that can take a
\* step eventually takes one
FairSyncSpec == SyncSpec /\ \A t \in Threads : WF_vars(ThreadStep(t))

\* ---- one run of the service: start_sync is not called again once a loop
\* thread has been created
FirstStartSync == sync_thread = None /\ StartSync

RunNext ==
    \/ FirstStartSync
    \/ StopSync
    \/ JoinThreadEnded
    \/ JoinTimedOut
    \/ AddEventCallback
    \/ AddSlideSyncCallback
    \/ PollLoad
    \/ \E n \in 1..2 : Navigate(n)
    \/ NavigateNext
    \/ NavigatePrevious
    \/ \E sig \in PollSignals : ManualSyncBegin(sig)
    \/ ManualSyncFinish
    \/ \E t \in Threads : ThreadStep(t)

RunSpec == Init /\ [][RunNext]_vars

FairRunSpec == RunSpec /\ \A t \in Threads : WF_vars(ThreadStep(t))

\* ------------------------------------------------ detector calls
otherVars == <<trackerVars, call, serviceVars, syncVars, threadVars, fed,
              logVars>>

\* the PowerPoint window title grows by one word
TypeTitle(w) ==
    /\ Len(active_window.title) < MaxTitle
    /\ active_window' = Window(Append(active_window.title, w))
    /\ detection' = NoDetection
    /\ UNCHANGED <<helpers, otherVars>>

\* PowerPoint shows a window with this title
ShowWindow(title) ==
    /\ active_window' = Window(title)
    /\ detection' = NoDetection
    /\ UNCHANGED <<helpers, otherVars>>

\* PowerPoint has no window
CloseWindow ==
    /\ active_window' = NoWindow
    /\ detection' = NoDetection
    /\ UNCHANGED <<helpers, otherVars>>

\* what detect_current_slide_simple() would do changes
PptChanges(a) ==
    /\ helpers' = [helpers EXCEPT !.ppt = a]
    /\ detection' = NoDetection
    /\ UNCHANGED <<active_window, otherVars>>

\* what get_powerpoint_slide_info_macos() would return changes
AppleScriptChanges(a) ==
    /\ helpers' = [helpers EXCEPT !.applescript = a]
    /\ detection' = NoDetection
    /\ UNCHANGED <<active_window, otherVars>>

\* what screen_detector.get_current_slide_info() would do changes
OcrChanges(a) ==
    /\ helpers' = [helpers EXCEPT !.ocr = a]
    /\ detection' = NoDetection
    /\ UNCHANGED <<active_window, otherVars>>

\* extract_slide_info_from_title(window.title) on platform sys
ExtractSlideInfoFromTitle(sys) ==
    /\ active_window.found
    /\ detection' =
          Detection("extract_slide_info_from_title", sys,
                    extract_slide_info_from_title(sys, active_window.title,
                                                  helpers.applescript))
    /\ UNCHANGED <<active_window, helpers, otherVars>>

\* get_current_slide_info() on platform sys
GetCurrentSlideInfo(sys) ==
    /\ detection' =
          Detection("get_current_slide_info", sys,
                    get_current_slide_info(sys, helpers.ppt, active_window,
                                           helpers.applescript, helpers.ocr))
    /\ UNCHANGED <<active_window, helpers, otherVars>>

TitleNext ==
    \/ \E w \in TitleWords : TypeTitle(w)
    \/ \E a \in AppleAnswers : AppleScriptChanges(a)
    \/ \E sys \in Systems : ExtractSlideInfoFromTitle(sys)

DetectNext ==
    \/ \E title \in WindowTitles : ShowWindow(title)
    \/ CloseWindow
    \/ \E a \in PptAnswers : PptChanges(a)
    \/ \E a \in AppleAnswers : AppleScriptChanges(a)
    \/ \E a \in OcrAnswers : OcrChanges(a)
    \/ \E sys \in Systems : GetCurrentSlideInfo(sys)

\* the detector of a tracker built with auto_detect=True
DetectInit == Init /\ window_detector

TitleSpec == DetectInit /\ [][TitleNext]_vars

DetectSpec == DetectInit /\ [][DetectNext]_vars

\* ------------------------------------------- PresentationService calls
\* the service state a call starts from
Before ==
    ServiceState(tracker, detector, current_presentation_id, is_presenting,
                 current_slide_index, total_slides, window_based_tracking,
                 window_detector, auto_sync_enabled)

\* what the detector answers to the tracker of a service
ServiceSignals ==
    {NoSignal,
     [info |-> TRUE, current_slide |-> None, total_slides |-> 0],
     [info |-> TRUE, current_slide |-> 1, total_slides |-> MaxSignal],
     [info |-> TRUE, current_slide |-> MaxSignal, total_slides |-> 2]}

\* the files handed to the service
ServiceFiles ==
    {File(FALSE, "pptx", FALSE, 0, 0), File(TRUE, "other", FALSE, 0, 0),
     File(TRUE, "pptx", TRUE, 0, 0), File(TRUE, "pptx", TRUE, MaxSlides, 0),
     File(TRUE, "ppt", TRUE, 2, 0), File(TRUE, "pptx", FALSE, 0, 0),
     File(TRUE, "ppt", FALSE, 0, 0), File(TRUE, "ppt", FALSE, 0, 1),
     File(TRUE, "ppt", FALSE, 0, MaxSlides)}

\* presentation ids (the stem of the file name)
ServiceIds == 1..2

\* PresentationService.load_presentation(file_path, auto_detect); sig is the
\* detector's answer should the tracker consult the window
ServiceLoadPresentation(f, id, auto_detect, sig) ==
    /\ sig # NoSignal => (WindowConsulted(f) /\ auto_detect)
    /\ ServiceLoad(f, id, auto_detect, sig)
    /\ service_call' =
          ServiceCall("load_presentation", f, auto_detect, sig,
                      ~load_presentation(0, 0, FALSE, auto_detect, f,
                                         sig).raised,
                      Before)
    /\ UNCHANGED <<call, syncVars, threadVars, fed, detectVars, emitted>>

\* PresentationTracker.auto_load_presentation() on a tracker just built by
\* PresentationTracker(None, auto_detect=True): f is the file
\* auto_detect_presentation_file() found (one that does not exist: none
\* found), sig the detector's answer to load_presentation
auto_load_presentation(f, sig) ==
    LET r == load_presentation(0, 0, FALSE, TRUE, f, sig)
    IN  IF ~f.exists \/ r.raised
        THEN [ret |-> FALSE, current_slide_index |-> 0, total_slides |-> 0,
              window_based_tracking |-> FALSE, auto_sync_enabled |-> FALSE]
        ELSE [ret |-> TRUE, current_slide_index |-> r.current_slide_index,
              total_slides |-> r.total_slides,
              window_based_tracking |-> r.window_based_tracking,
              auto_sync_enabled |->
                  enable_auto_sync(TRUE, FALSE).auto_sync_enabled]

\* PresentationService.auto_detect_presentation(): the detector is created
\* when missing, the tracker is replaced by a new one, then auto-loaded
AutoDetectPresentation(f, id, sig) ==
    /\ f.ext # "other"
    /\ sig # NoSignal => WindowConsulted(f)
    /\ LET r == auto_load_presentation(f, sig)
       IN  /\ detector' = TRUE
           /\ tracker' = TRUE
           /\ current_slide_index' = r.current_slide_index
           /\ total_slides' = r.total_slides
           /\ window_based_tracking' = r.window_based_tracking
           /\ window_detector' = TRUE
           /\ auto_sync_enabled' = r.auto_sync_enabled
           /\ current_presentation_id' =
                 IF r.ret THEN id ELSE current_presentation_id
           /\ service_call' =
                 ServiceCall("auto_detect_presentation", f, TRUE, sig, r.ret,
                             Before)
    /\ UNCHANGED <<is_presenting, call, syncVars, threadVars, fed,
                   detectVars, emitted>>

\* PresentationService.start_presentation()
StartPresentation ==
    /\ IF ~tracker
       THEN UNCHANGED <<is_presenting, auto_sync_enabled>>
       ELSE /\ is_presenting' = TRUE
            /\ auto_sync_enabled' =
                  IF detector
                  THEN enable_auto_sync(window_detector,
                                        auto_sync_enabled).auto_sync_enabled
                  ELSE auto_sync_enabled
    /\ service_call' =
          ServiceCall("start_presentation", NoFile, FALSE, NoSignal, tracker,
                      Before)
    /\ UNCHANGED <<current_slide_index, total_slides, window_based_tracking,
                   window_detector, tracker, detector,
                   current_presentation_id, call, syncVars, threadVars, fed,
                   detectVars, emitted>>

\* PresentationService.stop_presentation()
StopPresentation ==
    /\ is_presenting' = FALSE
    /\ auto_sync_enabled' = IF tracker THEN FALSE ELSE auto_sync_enabled
    /\ service_call' =
          ServiceCall("stop_presentation", NoFile, FALSE, NoSignal, FALSE,
                      Before)
    /\ UNCHANGED <<current_slide_index, total_slides, window_based_tracking,
                   window_detector, tracker, detector,
                   current_presentation_id, call, syncVars, threadVars, fed,
                   detectVars, emitted>>

\* PresentationService.sync_with_powerpoint() with no other caller inside
ServiceSync(sig) ==
    /\ LET s == sync_with_powerpoint(tracker, detector,
                    current_slide_index + 1, current_slide_index,
                    total_slides, window_based_tracking, window_detector, sig)
       IN  /\ current_slide_index' = s.current_slide_index
           /\ total_slides' = s.total_slides
           /\ service_call' =
                 ServiceCall("sync_with_powerpoint", NoFile, FALSE, sig,
                             s.ret, Before)
    /\ UNCHANGED <<window_based_tracking, window_detector, auto_sync_enabled,
                   serviceVars, call, syncVars, threadVars, fed, detectVars,
                   emitted>>

\* tracker.get_total_slides() on the service's tracker
ServiceGetTotalSlides(sig) ==
    /\ tracker
    /\ total_slides' = get_total_slides(total_slides, window_based_tracking,
                                        window_detector, sig)
    /\ service_call' =
          ServiceCall("get_total_slides", NoFile, FALSE, sig, FALSE, Before)
    /\ UNCHANGED <<current_slide_index, window_based_tracking,
                   window_detector, auto_sync_enabled, serviceVars, call,
                   syncVars, threadVars, fed, detectVars, emitted>>

ServiceNext ==
    \/ \E f \in ServiceFiles, id \in ServiceIds, auto_detect \in BOOLEAN,
          sig \in ServiceSignals :
          ServiceLoadPresentation(f, id, auto_detect, sig)
    \/ \E f \in ServiceFiles, id \in ServiceIds, sig \in ServiceSignals :
          AutoDetectPresentation(f, id, sig)
    \/ StartPresentation
    \/ StopPresentation
    \/ \E sig \in ServiceSignals : ServiceSync(sig)
    \/ \E sig \in ServiceSignals : ServiceGetTotalSlides(sig)

\* a PresentationService on its own; it holds no tracker yet
NoTrackerInit == Init /\ ~window_detector

ServiceSpec == NoTrackerInit /\ [][ServiceNext]_vars

\* ------------------------------------------------ SyncService events
\* emit_event('slide_changed', ...) called directly; the events are numbered
\* in the order of the calls
EmitEvent ==
    /\ Len(emitted) < MaxEmitted
    /\ LET e == SlideChanged(Len(emitted) + 1)
       IN  /\ sync_events' = emit_event(sync_events, e)
           /\ emitted' = Append(emitted, e)
    /\ UNCHANGED <<trackerVars, call, serviceVars, presentation_service,
                   is_running, sync_thread, last_slide_number,
                   last_presentation_id, event_callbacks,
                   slide_sync_callbacks, threadVars, fed, detectVars,
                   service_call>>

\* clear_events()
ClearEvents ==
    /\ sync_events' = <<>>
    /\ emitted' = <<>>
    /\ UNCHANGED <<trackerVars, call, serviceVars, presentation_service,
                   is_running, sync_thread, last_slide_number,
                   last_presentation_id, event_callbacks,
                   slide_sync_callbacks, threadVars, fed, detectVars,
                   service_call>>

EventNext == EmitEvent \/ ClearEvents

\* a SyncService whose emit_event and clear_events are called directly
EventSpec == NoTrackerInit /\ [][EventNext]_vars

\* ================================================================ claims
SYNC == "sync_with_powerpoint_window"

\* C1: go_to_slide(n) returns False and leaves current_slide_index and
\* total_slides unchanged when n < 1 or n > total_slides; otherwise it
\* returns True and sets current_slide_index to n - 1.
C1_GoToSlide ==
    [][call'.op = "go_to_slide" =>
         IF call'.n < 1 \/ call'.n > total_slides
         THEN /\ call'.ret = FALSE
              /\ current_slide_index' = current_slide_index
              /\ total_slides' = total_slides
         ELSE /\ call'.ret = TRUE
              /\ current_slide_index' = call'.n - 1]_vars

C1_Witness ==
    /\ call.op = "go_to_slide"
    /\ call.ret = FALSE
    /\ total_slides > 0
    /\ call.n > total_slides

\* C2: next_slide() at current_slide_index = total_slides - 1 and
\* previous_slide() at current_slide_index = 0 return False and do not move
\* the index; in every other state with 0 <= index < total_slides each
\* returns True and moves the index by exactly one.
C2_NextPrevious ==
    [][/\ call'.op = "next_slide" =>
            IF current_slide_index = total_slides - 1
            THEN call'.ret = FALSE
                 /\ current_slide_index' = current_slide_index
            ELSE (0 <= current_slide_index
                    /\ current_slide_index < total_slides)
                 => (call'.ret = TRUE
                     /\ current_slide_index' = current_slide_index + 1)
       /\ call'.op = "previous_slide" =>
            IF current_slide_index = 0
            THEN call'.ret = FALSE
                 /\ current_slide_index' = current_slide_index
            ELSE (0 <= current_slide_index
                    /\ current_slide_index < total_slides)
                 => (call'.ret = TRUE
                     /\ current_slide_index' = current_slide_index - 1)]_vars

C2_Witness ==
    /\ call.op = "next_slide"
    /\ call.ret = FALSE
    /\ total_slides > 1
    /\ current_slide_index = total_slides - 1

\* C3: every value sync_with_powerpoint_window writes to current_slide_index
\* lies in [0, total_slides - 1] for the total_slides in force at the write,
\* whatever the signal carries.
C3_SyncWritesInRange ==
    [][(call'.op = SYNC /\ current_slide_index' # current_slide_index) =>
         (0 <= current_slide_index'
            /\ current_slide_index' < total_slides')]_vars

C3_Witness ==
    /\ call.op = SYNC
    /\ call.ret = TRUE
    /\ window_based_tracking
    /\ Truthy(call.sig.total_slides)
    /\ total_slides = call.sig.total_slides
    /\ current_slide_index = total_slides - 1

\* C4: sync_with_powerpoint_window returns True if and only if
\* current_slide_index after the call differs from its value before.
C4_SyncReturnsChange ==
    [][call'.op = SYNC =>
         (call'.ret <=> current_slide_index' # current_slide_index)]_vars

C4_Witness ==
    /\ call.op = SYNC
    /\ call.ret = FALSE
    /\ window_detector
    /\ window_based_tracking
    /\ Truthy(call.sig.current_slide)
    /\ Truthy(call.sig.total_slides)
    /\ call.sig.current_slide = current_slide_index + 1

\* C5: applying the same signal twice in a row leaves the tracker as the
\* first application left it, and the second application returns False.
C5_SyncIdempotent ==
    [][(call.op = SYNC /\ call'.op = SYNC /\ call'.sig = call.sig) =>
         (call'.ret = FALSE /\ UNCHANGED trackerVars)]_vars

C5_Witness ==
    /\ call.op = SYNC
    /\ call.again
    /\ Truthy(call.sig.current_slide)
    /\ current_slide_index = call.sig.current_slide - 1
    /\ current_slide_index > 0

\* C7: in every reachable tracker state with total_slides > 0,
\* 0 <= current_slide_index < total_slides.
C7_IndexInRange ==
    total_slides > 0 =>
        (0 <= current_slide_index /\ current_slide_index < total_slides)

\* C6: from a directly loaded 3-slide document at index 0, the signals
\* current_slide = None, 2, 2, 5, 1 fed in that order yield exactly two
\* change events (slide 2, then slide 1); the signal 5 is dropped and the
\* final current_slide_index is 0.
SlideEvents == SelectSeq(sync_events, LAMBDA e : e.event_type = "slide_changed")

C6_Scenario ==
    (total_slides = 3 /\ ~window_based_tracking) =>
        /\ fed = <<None, 2, 2>> =>
              (current_slide_index = 1 /\ SlideEvents = <<SlideChanged(2)>>)
        /\ fed = <<None, 2, 2, 5>> =>
              (current_slide_index = 1 /\ SlideEvents = <<SlideChanged(2)>>)
        /\ fed = <<None, 2, 2, 5, 1>> =>
              (current_slide_index = 0
               /\ SlideEvents = <<SlideChanged(2), SlideChanged(1)>>)

C6_Witness ==
    /\ total_slides = 3
    /\ ~window_based_tracking
    /\ fed = <<None, 2, 2, 5, 1>>
    /\ Len(sync_events) = 2

\* C8: every polling iteration in which sync_with_powerpoint returned True
\* emits one slide_changed event that reaches every event callback and every
\* slide-sync callback.  Stated for the iterations in which nothing raises
\* (the step ends at the loop head, not in an except clause), the reading
\* most favourable to the code.
C8_ChangedIsReported ==
    [][\A t \in Threads :
         (pc[t] = "report" /\ pc'[t] = "while" /\ changed[t])
         => sync_events'
               = Append(sync_events, SlideChanged(current_slide_index + 1))]_vars

\* C9: once stop_sync() has returned (and start_sync has not been called
\* again) the polling loop emits no event.
C9_NoEventAfterStop ==
    [][stopped => sync_events' = sync_events]_vars

Excepting(t) == pc[t] \in {"except_presentation", "except_slide"}

\* C10: an exception raised in a polling iteration never ends the loop: the
\* thread gets back to its while test, and it ends only by finding
\* is_running false there.
C10_LoopSurvives ==
    /\ \A t \in Threads : Excepting(t) ~> (pc[t] = "while")
    /\ [][\A t \in Threads :
            (pc'[t] = "done" /\ pc[t] # "done")
            => (pc[t] = "while" /\ ~is_running)]_vars

C10_Witness ==
    \E t \in Threads : pc[t] = "except_slide" /\ is_running /\ Len(sync_events) > 0

\* C15: enable_auto_sync() returns True and sets auto_sync_enabled exactly
\* when the tracker has a window detector; without one it returns False and
\* auto_sync_enabled is False afterwards; disable_auto_sync() always leaves
\* auto_sync_enabled False.
C15_AutoSync ==
    [][/\ call'.op = "enable_auto_sync" =>
            IF window_detector
            THEN call'.ret = TRUE /\ auto_sync_enabled' = TRUE
            ELSE call'.ret = FALSE /\ auto_sync_enabled' = FALSE
       /\ call'.op = "disable_auto_sync" => auto_sync_enabled' = FALSE]_vars

C15_Witness ==
    /\ call.op = "enable_auto_sync"
    /\ call.ret = FALSE
    /\ ~window_detector
    /\ ~auto_sync_enabled
    /\ total_slides > 0

\* C16: a signal whose current_slide is outside [1, total_slides] is dropped
\* without any effect: the sync returns False and leaves current_slide_index
\* and total_slides as they were, in direct and in window-based mode, also
\* when the signal carries its own total_slides.
C16_OutOfRangeDropped ==
    [][(/\ call'.op = SYNC
        /\ call'.sig.info
        /\ call'.sig.current_slide # None
        /\ (call'.sig.current_slide < 1
              \/ call'.sig.current_slide > total_slides))
       => (/\ call'.ret = FALSE
           /\ current_slide_index' = current_slide_index
           /\ total_slides' = total_slides)]_vars

\* C17: with total_slides unknown (0) the sync accepts any signal with a
\* positive current_slide: the index moves to current_slide - 1 and the call
\* returns True if that differs from the stored index.
C17_UnknownTotalAccepts ==
    [][(/\ call'.op = SYNC
        /\ window_detector
        /\ total_slides = 0
        /\ call'.sig.info
        /\ call'.sig.current_slide # None
        /\ call'.sig.current_slide > 0)
       => (/\ current_slide_index' = call'.sig.current_slide - 1
           /\ call'.ret = (current_slide_index' # current_slide_index))]_vars

\* C11: when window enumeration returns an empty list,
\* get_current_slide_info does not raise and returns a signal whose mode is
\* no_presentation, on every platform branch.
C11_NoWindowNoPresentation ==
    (/\ detection.op = "get_current_slide_info"
     /\ ~get_active_powerpoint_window(detection.system, active_window).found)
    => (/\ ~detection.result.raised
        /\ detection.result.info
        /\ detection.result.mode = "no_presentation")

\* the title get_current_slide_info hands to extract_slide_info_from_title
TitleSeen(sys) == get_active_powerpoint_window(sys, active_window).title

\* the slide numbers native introspection yielded in the last detection:
\* the PPT detector runs first on macOS, AppleScript when the title parser
\* asks it
NativeYields ==
    {helpers.ppt.current_slide :
        x \in {y \in {detection.system} :
                  /\ y = "Darwin"
                  /\ helpers.ppt.state = "info"
                  /\ Truthy(helpers.ppt.current_slide)}}
    \cup
    {helpers.applescript.current_slide :
        x \in {y \in {detection.system} :
                  /\ AppleScriptAsked(y, TitleSeen(y))
                  /\ Truthy(helpers.applescript.current_slide)}}

\* the slide number the title of the window found yields
TitleYield ==
    IF get_active_powerpoint_window(detection.system, active_window).found
    THEN parse_title(active_window.title).current_slide
    ELSE None

\* C12: whenever native introspection and title parsing both yield a
\* current_slide for the same detection and the two differ, the signal
\* returned carries the native value.
C12_NativeWins ==
    (/\ detection.op = "get_current_slide_info"
     /\ NativeYields # {}
     /\ TitleYield # None
     /\ TitleYield \notin NativeYields)
    => detection.result.current_slide \in NativeYields

\* the title parser was reached: AppleScript was not asked or had no slide
TitleParsed ==
    ~(/\ AppleScriptAsked(detection.system, active_window.title)
      /\ Truthy(helpers.applescript.current_slide))

C14_SignalInRange ==
    (/\ detection.result.info
     /\ detection.result.current_slide # None
     /\ detection.result.total_slides # None)
    => (/\ 1 <= detection.result.current_slide
        /\ detection.result.current_slide <= detection.result.total_slides)

\* C18: for any sequence of start_sync and stop_sync calls at most one
\* polling loop is running iterations: only the thread the last start_sync
\* created starts an iteration (an iteration that was in flight when
\* stop_sync gave up joining may still finish).
C18_OneLoop ==
    [][\A t \in Threads :
         (pc[t] = "while" /\ pc'[t] = "check_presentation")
         => t = sync_thread]_vars

\* C19: the background poll and a manual sync are never both inside the
\* tracker's check-and-write of total_slides and current_slide_index.
C19_MutualExclusion ==
    ~(ui = "syncing" /\ \E t \in Threads : pc[t] = "reconcile")

\* C20: after stop_sync() has set is_running to false, and with start_sync
\* not called again, the polling thread starts no new iteration and
\* eventually terminates; the iteration in flight finishes.
C20_StopEndsLoop ==
    /\ [][\A t \in Threads :
            (~is_running /\ pc[t] = "while")
            => pc'[t] # "check_presentation"]_vars
    /\ \A t \in Threads :
          (~is_running /\ pc[t] \notin {"new", "done"}) ~> (pc[t] = "done")

C20_Witness ==
    \E t \in Threads :
        /\ pc[t] = "done"
        /\ ~is_running
        /\ stopped
        /\ last_slide_number > 0

\* what the sources ahead of OCR (AppleScript, the title parser) obtained
\* for the window found in the last detection
BeforeOcr ==
    extract_slide_info_from_title(detection.system,
                                  TitleSeen(detection.system),
                                  helpers.applescript)

\* the last detection went past the PPT detector and found a window
CascadeReachedOcr ==
    /\ detection.op = "get_current_slide_info"
    /\ detection.result.detection_method # "ppt_specialized"
    /\ get_active_powerpoint_window(detection.system, active_window).found

\* C21: the OCR screen detector is consulted only when introspection and
\* title parsing obtained no current_slide, and a current_slide they did
\* obtain is never replaced by the OCR slide number.
C21_OcrOnlyFillsGaps ==
    (CascadeReachedOcr /\ Truthy(BeforeOcr.current_slide))
    => (/\ ~OcrAsked(BeforeOcr, helpers.ocr)
        /\ detection.result.current_slide = BeforeOcr.current_slide
        /\ detection.result.detection_method # "screen_ocr")

\* C22: loading an existing .ppt or .pptx file that python-pptx cannot
\* parse never fails: the tracker is in window-based mode and
\* PresentationService.load_presentation has returned True.
C22_UnreadableLoads ==
    (/\ service_call.op = "load_presentation"
     /\ service_call.file.exists
     /\ service_call.file.ext \in {"ppt", "pptx"}
     /\ ~service_call.file.readable)
    => (/\ service_call.ret
        /\ tracker
        /\ window_based_tracking)

\* C23: Stopped is terminal: a start_presentation() that follows
\* stop_presentation() with no load in between (here: directly) does not
\* re-enter Presenting (is_presenting true with auto-sync enabled).
C23_StoppedIsTerminal ==
    [][(/\ service_call.op = "stop_presentation"
        /\ service_call'.op = "start_presentation")
       => ~(is_presenting' /\ auto_sync_enabled')]_vars

\* C24: whenever start_presentation() returns True, is_presenting and the
\* tracker's auto_sync_enabled are True afterwards, however the presentation
\* was loaded; it returns False and changes nothing when none is loaded.
C24_StartEnablesAutoSync ==
    service_call.op = "start_presentation" =>
        IF service_call.ret
        THEN is_presenting /\ auto_sync_enabled
        ELSE ~service_call.before.tracker /\ Before = service_call.before

\* C29: an auto_detect_presentation() that returns False leaves the service
\* as it was: the tracker loaded before, its total_slides and
\* current_slide_index, and current_presentation_id.
C29_FailedDetectKeepsState ==
    (service_call.op = "auto_detect_presentation" /\ ~service_call.ret)
    => (/\ tracker = service_call.before.tracker
        /\ total_slides = service_call.before.total_slides
        /\ current_slide_index = service_call.before.current_slide_index
        /\ window_based_tracking = service_call.before.window_based_tracking
        /\ current_presentation_id =
              service_call.before.current_presentation_id)

\* the detector's answer carried a usable total_slides for the last call
SignalTotalAvailable ==
    /\ service_call.auto_detect
    /\ service_call.sig.info
    /\ Truthy(service_call.sig.total_slides)

\* C25: a load that enters window-based mode takes total_slides from the
\* live signal when it has one, otherwise from the file analysis when that
\* is greater than 1, otherwise 1; total_slides >= 1 in every state of
\* window-based mode, also after reconcile and get_total_slides calls.
C25_WindowModeTotal ==
    /\ (tracker /\ window_based_tracking) => total_slides >= 1
    /\ (/\ service_call.op \in {"load_presentation",
                                "auto_detect_presentation"}
        /\ service_call.ret
        /\ window_based_tracking)
       => total_slides =
             IF SignalTotalAvailable THEN service_call.sig.total_slides
             ELSE IF service_call.file.count > 1
                  THEN service_call.file.count
                  ELSE 1

\* the window answered without a total and the file analysis found nothing
C25_Witness ==
    /\ service_call.op = "load_presentation"
    /\ service_call.ret
    /\ window_based_tracking
    /\ service_call.sig.info
    /\ service_call.sig.total_slides = 0
    /\ service_call.file.count = 0
    /\ total_slides = 1

\* C26: after any sequence of emit_event calls the history holds at most
\* max_events entries, namely the most recent min(n, max_events) events
\* emitted, in emission order; clear_events empties it.
C26_BoundedHistory ==
    LET n == Len(emitted)
        k == IF n < max_events THEN n ELSE max_events
    IN  /\ Len(sync_events) <= max_events
        /\ sync_events = SubSeq(emitted, n - k + 1, n)

\* two events more than the history holds: the first two are gone
C26_Witness ==
    /\ Len(emitted) = max_events + 2
    /\ Len(sync_events) = max_events
    /\ sync_events[1] = SlideChanged(3)
    /\ sync_events[max_events] = SlideChanged(max_events + 2)

\* C27: extract_slide_info_from_title is a pure function of the title: the
\* result is the one every platform and every state of the presentation
\* application give for that title, and the call does not ask the
\* scripting bridge.
C27_TitleParserPure ==
    detection.op = "extract_slide_info_from_title" =>
        /\ ~AppleScriptAsked(detection.system, active_window.title)
        /\ \A sys \in Systems, a \in AppleAnswers :
              detection.result =
                  extract_slide_info_from_title(sys, active_window.title, a)

\* C28: whenever _check_presentation_changes observes a summary whose
\* presentation_id differs from last_presentation_id, a presentation_loaded
\* event is emitted (and with it the presentation-sync callbacks run).
C28_LoadIsAnnounced ==
    [][\A t \in Threads :
         (/\ pc[t] = "check_presentation"
          /\ pc'[t] = "check_slide"
          /\ presentation_service
          /\ tracker
          /\ current_presentation_id # last_presentation_id)
         => (/\ emitted' = Append(emitted, PresentationLoaded)
             /\ Len(sync_events') > 0
             /\ sync_events'[Len(sync_events')] = PresentationLoaded)]_vars

\* C30: under every interleaving of the background poll and a manual sync,
\* a sync_with_powerpoint call that changes current_slide_index returns
\* True (and has then invoked the slide-change callbacks); no index change
\* goes unreported because the other caller moved the index between the
\* call's read of previous_slide and its reconcile.  The polling thread's
\* return value is `changed`; the manual sync returns True exactly when the
\* tracker moved to a slide other than its previous_slide.
C30_IndexChangeReported ==
    [][/\ \A t \in Threads :
            (/\ pc[t] = "reconcile"
             /\ pc'[t] = "report"
             /\ current_slide_index' # current_slide_index)
            => changed'[t]
       /\ (/\ ui = "syncing"
           /\ ui' = "ready"
           /\ current_slide_index' # current_slide_index)
          => current_slide_index' + 1 # sync_previous_slide[UI]]_vars

====
